---- MODULE Spec2Model ----
(***************************************************************************)
(* Model of the serialization engine (SerializationServiceV1) and of the   *)
(* MultiMapIsLocked request codec of the Hazelcast Node.js client.         *)
(*                                                                         *)
(* A JavaScript value is a record                                          *)
(*   t    : its runtime shape as Util.getType reports it                   *)
(*   n    : the 8 IEEE-754 bytes of a number, most significant first       *)
(*   b    : the truth value of a boolean                                   *)
(*   s    : the character codes of a string                                *)
(*   e    : the elements of an array                                       *)
(*   caps : the truthy properties among readData, writeData, getClassId,   *)
(*          getFactoryId, getPartitionHash that the value exposes          *)
(* A byte buffer is a sequence of numbers in 0..255.                       *)
(***************************************************************************)
EXTENDS Integers, Sequences, FiniteSets, TLC

\* Longest array in the value universe.
MaxLen == 2

------------------------------------------------------------------------------
\* The value universe

IdentifiedCaps == {"readData", "writeData", "getClassId", "getFactoryId"}

CapSets == { {}, IdentifiedCaps, IdentifiedCaps \ {"getFactoryId"},
             {"getPartitionHash"}, IdentifiedCaps \cup {"getPartitionHash"} }

Val(t, n, b, s, e, caps) ==
    [t |-> t, n |-> n, b |-> b, s |-> s, e |-> e, caps |-> caps]

Undefined == Val("undefined", <<>>, FALSE, <<>>, <<>>, {})
Null      == Val("null", <<>>, FALSE, <<>>, <<>>, {})
Num(bytes) == Val("number", bytes, FALSE, <<>>, <<>>, {})
Bool(b)   == Val("boolean", <<>>, b, <<>>, <<>>, {})
Str(s)    == Val("string", <<>>, FALSE, s, <<>>, {})
Obj(caps) == Val("object", <<>>, FALSE, <<>>, <<>>, caps)
Arr(e, caps) == Val("array", <<>>, FALSE, <<>>, e, caps)

\* 14 and 545.3 as IEEE-754 doubles.
Numbers == { <<64, 44, 0, 0, 0, 0, 0, 0>>,
             <<64, 129, 10, 102, 102, 102, 102, 102>> }

\* '' and 'cé' (the second character takes two bytes in UTF-8).
Strings == { <<>>, <<99, 233>> }

Scalars == {Num(n) : n \in Numbers} \cup {Bool(b) : b \in BOOLEAN}
             \cup {Str(s) : s \in Strings}

\* What an array may hold.
Elements == { Num(<<64, 129, 10, 102, 102, 102, 102, 102>>), Bool(TRUE),
              Str(<<>>), Str(<<99, 233>>), Null, Obj({}) }

SeqsUpTo(S, k) == UNION { [1..m -> S] : m \in 0..k }

Arrays == { Arr(e, caps) : e \in SeqsUpTo(Elements, MaxLen),
                           caps \in {{}, IdentifiedCaps} }

Values == Scalars \cup Arrays \cup {Obj(caps) : caps \in CapSets}
            \cup {Null, Undefined}

\* Values of the supported shape set that are not null.
Homogeneous(v) == \A i \in DOMAIN v.e : v.e[i].t = v.e[1].t
Supported(v) ==
    \/ v \in Scalars
    \/ /\ v.t = "array" /\ v.caps = {}
       /\ \A i \in DOMAIN v.e : v.e[i] \in Scalars
       /\ Homogeneous(v)

------------------------------------------------------------------------------
\* Binary stream primitives

Reverse(s) == [i \in 1..Len(s) |-> s[Len(s) + 1 - i]]

\* A 32-bit two's complement integer as 4 bytes in the given byte order.
IntBytes(v, bigEndian) ==
    LET le == [k \in 1..4 |-> (v \div (256 ^ (k - 1))) % 256]
    IN  IF bigEndian THEN Reverse(le) ELSE le

\* The 32-bit two's complement integer held by 4 bytes at pos (1-based).
IntAt(buf, pos, bigEndian) ==
    LET raw == SubSeq(buf, pos, pos + 3)
        le  == IF bigEndian THEN Reverse(raw) ELSE raw
        top == IF le[4] >= 128 THEN le[4] - 256 ELSE le[4]
    IN  le[1] + 256 * le[2] + 65536 * le[3] + 16777216 * top

writeInt(v, bigEndian) == IntBytes(v, bigEndian)
writeIntBE(v) == IntBytes(v, TRUE)

writeDouble(n, bigEndian) == IF bigEndian THEN n ELSE Reverse(n)
readDouble(buf, pos, bigEndian) ==
    LET raw == SubSeq(buf, pos, pos + 7)
    IN  IF bigEndian THEN raw ELSE Reverse(raw)

writeBoolean(b) == IF b THEN <<1>> ELSE <<0>>
readBoolean(buf, pos) == buf[pos] # 0

\* UTF-8 bytes of a string whose characters are below U+0800.
RECURSIVE Utf8(_)
Utf8(s) ==
    IF s = <<>> THEN <<>>
    ELSE LET c == Head(s)
         IN  (IF c < 128 THEN <<c>> ELSE <<192 + (c \div 64), 128 + (c % 64)>>)
                \o Utf8(Tail(s))

RECURSIVE Utf8Decode(_)
Utf8Decode(bytes) ==
    IF bytes = <<>> THEN <<>>
    ELSE IF bytes[1] < 128 THEN <<bytes[1]>> \o Utf8Decode(Tail(bytes))
    ELSE <<(bytes[1] - 192) * 64 + (bytes[2] - 128)>>
            \o Utf8Decode(Tail(Tail(bytes)))

writeUTF(s, bigEndian) == writeInt(Len(Utf8(s)), bigEndian) \o Utf8(s)
\* The string at pos and the position after it.
readUTF(buf, pos, bigEndian) ==
    LET len == IntAt(buf, pos, bigEndian)
    IN  [val |-> Utf8Decode(SubSeq(buf, pos + 4, pos + 3 + len)),
         pos |-> pos + 4 + len]

------------------------------------------------------------------------------
\* Serializers: a serializer is its class and the tag getId() returns

Ser(kind, id) == [kind |-> kind, id |-> id]

\* What a lookup that finds nothing returns.
NullSer      == Ser("null", 0)
UndefinedSer == Ser("undefined", 0)
Absent(ser)  == ser.kind \in {"null", "undefined"}

\* The type tags of the default serializers.
DefaultId(kind) ==
    CASE kind = "NullSerializer" -> 0
      [] kind = "IdentifiedDataSerializableSerializer" -> 0 - 2
      [] kind = "BooleanSerializer" -> 0 - 4
      [] kind = "ShortSerializer" -> 0 - 6
      [] kind = "IntegerSerializer" -> 0 - 7
      [] kind = "LongSerializer" -> 0 - 8
      [] kind = "FloatSerializer" -> 0 - 9
      [] kind = "DoubleSerializer" -> 0 - 10
      [] kind = "StringSerializer" -> 0 - 11
      [] kind = "BooleanArraySerializer" -> 0 - 13
      [] kind = "ShortArraySerializer" -> 0 - 15
      [] kind = "IntegerArraySerializer" -> 0 - 16
      [] kind = "LongArraySerializer" -> 0 - 17
      [] kind = "DoubleArraySerializer" -> 0 - 19
      [] kind = "StringArraySerializer" -> 0 - 20

Default(kind) == Ser(kind, DefaultId(kind))

\* Serializers an application may register: getId() is 0 or 7.
UserSerializers == { Ser("UserSerializer", id) : id \in {0, 7} }

\* An off-shape element makes an array serializer reject the array.
ElementsHaveShape(obj, t) == \A i \in DOMAIN obj.e : obj.e[i].t = t

RECURSIVE Flatten(_)
Flatten(ss) == IF ss = <<>> THEN <<>> ELSE Head(ss) \o Flatten(Tail(ss))

\* serializer.write(output, obj): the bytes appended, or a rejection.
SerWrite(ser, obj, bigEndian) ==
    LET count == writeInt(Len(obj.e), bigEndian)
        ok(bytes) == [err |-> "none", bytes |-> bytes]
        rejected  == [err |-> "TypeError: element of another shape",
                      bytes |-> <<>>]
    IN  CASE ser.kind = "StringSerializer" -> ok(writeUTF(obj.s, bigEndian))
          [] ser.kind = "DoubleSerializer" -> ok(writeDouble(obj.n, bigEndian))
          [] ser.kind = "BooleanSerializer" -> ok(writeBoolean(obj.b))
          [] ser.kind = "NullSerializer" -> ok(<<>>)
          [] ser.kind = "DoubleArraySerializer" ->
                IF ElementsHaveShape(obj, "number")
                THEN ok(count \o Flatten([i \in DOMAIN obj.e |->
                                    writeDouble(obj.e[i].n, bigEndian)]))
                ELSE rejected
          [] ser.kind = "BooleanArraySerializer" ->
                IF ElementsHaveShape(obj, "boolean")
                THEN ok(count \o Flatten([i \in DOMAIN obj.e |->
                                    writeBoolean(obj.e[i].b)]))
                ELSE rejected
          [] ser.kind = "StringArraySerializer" ->
                IF ElementsHaveShape(obj, "string")
                THEN ok(count \o Flatten([i \in DOMAIN obj.e |->
                                    writeUTF(obj.e[i].s, bigEndian)]))
                ELSE rejected
          [] ser.kind = "IdentifiedDataSerializableSerializer" ->
                ok(writeBoolean(TRUE) \o writeInt(1, bigEndian)
                     \o writeInt(2, bigEndian))
          [] ser.kind = "UserSerializer" -> ok(<<>>)

\* The strings of a string array: k of them, the first at pos.
RECURSIVE ReadStrings(_, _, _, _)
ReadStrings(buf, pos, k, bigEndian) ==
    IF k = 0 THEN <<>>
    ELSE LET r == readUTF(buf, pos, bigEndian)
         IN  <<Str(r.val)>> \o ReadStrings(buf, r.pos, k - 1, bigEndian)

\* serializer.read(input) with the input positioned at pos.
SerRead(ser, buf, pos, bigEndian) ==
    LET count == IntAt(buf, pos, bigEndian)
    IN  CASE ser.kind = "StringSerializer" ->
                Str(readUTF(buf, pos, bigEndian).val)
          [] ser.kind = "DoubleSerializer" -> Num(readDouble(buf, pos, bigEndian))
          [] ser.kind = "BooleanSerializer" -> Bool(readBoolean(buf, pos))
          [] ser.kind = "NullSerializer" -> Null
          [] ser.kind = "DoubleArraySerializer" ->
                Arr([i \in 1..count |->
                       Num(readDouble(buf, pos + 4 + 8 * (i - 1), bigEndian))], {})
          [] ser.kind = "BooleanArraySerializer" ->
                Arr([i \in 1..count |-> Bool(readBoolean(buf, pos + 3 + i))], {})
          [] ser.kind = "StringArraySerializer" ->
                Arr(ReadStrings(buf, pos + 4, count, bigEndian), {})
          [] ser.kind = "IdentifiedDataSerializableSerializer" ->
                Obj(IdentifiedCaps)
          [] ser.kind = "UserSerializer" -> Obj({})

------------------------------------------------------------------------------
\* HeapData

DATA_OFFSET == 8

\* data.getType(): the type tag of an envelope.
getType(data) == IntAt(data, 5, TRUE)

------------------------------------------------------------------------------
\* State of one SerializationServiceV1 and of its caller

VARIABLES
    isBigEndian,         \* serializationConfig.isBigEndian
    registry,            \* tag -> serializer
    serializerNameToId,  \* name -> tag
    op,                  \* the call that ran last
    arg,                 \* its argument: a value, an envelope or a stream
    serializer,          \* the serializer it resolved
    err,                 \* the error it threw, or "none"
    ret,                 \* what it returned
    held,                \* the envelope or stream the caller holds
    regBefore,           \* registry before the last call
    namesBefore          \* serializerNameToId before the last call

vars == <<isBigEndian, registry, serializerNameToId, op, arg, serializer, err,
          ret, held, regBefore, namesBefore>>

\* What the caller holds: an envelope toData returned ("data"), a stream
\* writeObject wrote to ("stream"), what a failed toData or writeObject left
\* ("failed"), or nothing yet. start is where writeObject began writing
\* (0-based) and object the value that was written.
Held(kind, bytes, start, obj) ==
    [kind |-> kind, bytes |-> bytes, start |-> start, object |-> obj]
NoHeld == Held("none", <<>>, 0, Undefined)

\* A JavaScript number or undefined is truthy unless it is 0 or undefined.
Bound(table, key) == key \in DOMAIN table
Truthy(table, key) == Bound(table, key) /\ table[key] # 0

findSerializerById(id) ==
    IF Bound(registry, id) THEN registry[id] ELSE UndefinedSer

findSerializerByName(name, isArray) ==
    LET serializerName == name \o (IF isArray THEN "Array" ELSE "")
    IN  IF ~Bound(serializerNameToId, serializerName) THEN NullSer
        ELSE findSerializerById(serializerNameToId[serializerName])

isIdentifiedDataSerializable(obj) == IdentifiedCaps \subseteq obj.caps

------------------------------------------------------------------------------
\* The errors the code throws

UndefinedError == "RangeError: undefined cannot be serialized."
DuplicateName  == "RangeError: Given serializer name is already in the registry."
DuplicateTag   == "RangeError: Given serializer id is already in the registry."
\* Reading a property of null or undefined.
PropertyError(of) == "TypeError: Cannot read property of " \o of

------------------------------------------------------------------------------
\* Registration

NoTable == [k \in {} |-> 0]

\* registerSerializer on the tables names and reg: the error and the tables
\* afterwards.
registerSerializer(names, reg, name, ser) ==
    IF Truthy(names, name)
    THEN [err |-> DuplicateName, names |-> names, reg |-> reg]
    ELSE IF Bound(reg, ser.id)
    THEN [err |-> DuplicateTag, names |-> names, reg |-> reg]
    ELSE [err |-> "none",
          names |-> (name :> ser.id) @@ names,
          reg |-> (ser.id :> ser) @@ reg]

DefaultSerializers ==
    << <<"string", Default("StringSerializer")>>,
       <<"number", Default("DoubleSerializer")>>,
       <<"boolean", Default("BooleanSerializer")>>,
       <<"null", Default("NullSerializer")>>,
       <<"short", Default("ShortSerializer")>>,
       <<"integer", Default("IntegerSerializer")>>,
       <<"long", Default("LongSerializer")>>,
       <<"float", Default("FloatSerializer")>>,
       <<"booleanArray", Default("BooleanArraySerializer")>>,
       <<"shortArray", Default("ShortArraySerializer")>>,
       <<"integerArray", Default("IntegerArraySerializer")>>,
       <<"longArray", Default("LongArraySerializer")>>,
       <<"numberArray", Default("DoubleArraySerializer")>>,
       <<"stringArray", Default("StringArraySerializer")>>,
       <<"identified", Default("IdentifiedDataSerializableSerializer")>> >>

\* The tables after the first k registrations of registerDefaultSerializers.
RECURSIVE registerDefaultSerializers(_)
registerDefaultSerializers(k) ==
    IF k = 0 THEN [err |-> "none", names |-> NoTable, reg |-> NoTable]
    ELSE LET t == registerDefaultSerializers(k - 1)
         IN  registerSerializer(t.names, t.reg, DefaultSerializers[k][1],
                                DefaultSerializers[k][2])

Constructed == registerDefaultSerializers(Len(DefaultSerializers))

\* Names an application registers serializers under.
UserNames == {"null", "object"}

RegisterSerializer(name, ser) ==
    LET r == registerSerializer(serializerNameToId, registry, name, ser)
    IN  /\ op' = "registerSerializer"
        /\ arg' = <<name, ser>>
        /\ err' = r.err
        /\ serializerNameToId' = r.names
        /\ registry' = r.reg
        /\ namesBefore' = serializerNameToId
        /\ regBefore' = registry
        /\ serializer' = ser
        /\ ret' = <<>>
        /\ UNCHANGED <<isBigEndian, held>>

------------------------------------------------------------------------------
\* Dispatch

\* Util.getType
UtilGetType(obj) == obj.t

\* Dispatch that classifies by shape before it looks for the capabilities.
findSerializerFor_shapeFirst(obj) ==
    IF obj.t = "undefined" THEN [err |-> UndefinedError, ser |-> NullSer]
    ELSE IF obj.t = "null"
    THEN [err |-> PropertyError("null"), ser |-> NullSer]
    ELSE IF obj.t = "array"
    THEN IF Len(obj.e) = 0
         THEN [err |-> "none", ser |-> findSerializerByName("number", TRUE)]
         ELSE [err |-> "none",
               ser |-> findSerializerByName(obj.e[1].t, TRUE)]
    ELSE IF isIdentifiedDataSerializable(obj)
    THEN [err |-> "none", ser |-> findSerializerByName("identified", FALSE)]
    ELSE [err |-> "none", ser |-> findSerializerByName(obj.t, FALSE)]

\* Dispatch that classifies an array by its last element.
findSerializerFor_lastElement(obj) ==
    IF obj.t = "undefined" THEN [err |-> UndefinedError, ser |-> NullSer]
    ELSE IF obj.t = "null"
    THEN [err |-> PropertyError("null"), ser |-> NullSer]
    ELSE IF isIdentifiedDataSerializable(obj)
    THEN [err |-> "none", ser |-> findSerializerByName("identified", FALSE)]
    ELSE IF obj.t = "array"
    THEN IF Len(obj.e) = 0
         THEN [err |-> "none", ser |-> findSerializerByName("number", TRUE)]
         ELSE [err |-> "none",
               ser |-> findSerializerByName(obj.e[Len(obj.e)].t, TRUE)]
    ELSE [err |-> "none", ser |-> findSerializerByName(obj.t, FALSE)]

\* The serializer for obj, or the error thrown while looking for it.
findSerializerFor(obj) ==
    IF obj.t = "undefined" THEN [err |-> UndefinedError, ser |-> NullSer]
    ELSE IF obj.t = "null"
    THEN \* isIdentifiedDataSerializable reads obj.readData
         [err |-> PropertyError("null"), ser |-> NullSer]
    ELSE IF isIdentifiedDataSerializable(obj)
    THEN [err |-> "none", ser |-> findSerializerByName("identified", FALSE)]
    ELSE LET objectType == UtilGetType(obj)
         IN  IF objectType = "array"
             THEN IF Len(obj.e) = 0
                  THEN [err |-> "none",
                        ser |-> findSerializerByName("number", TRUE)]
                  ELSE [err |-> "none",
                        ser |-> findSerializerByName(UtilGetType(obj.e[1]), TRUE)]
             ELSE [err |-> "none",
                   ser |-> findSerializerByName(objectType, FALSE)]

\* What obj.getPartitionHash() returns for the values that have it.
defaultPartitionStrategy(obj) ==
    IF obj.t = "null" \/ "getPartitionHash" \notin obj.caps THEN 0 ELSE 258

calculatePartitionHash(obj) == defaultPartitionStrategy(obj)

------------------------------------------------------------------------------
\* toData, toObject, writeObject, readObject

\* toData that writes the header with writeInt, in the configured order.
toData_configuredOrder(obj) ==
    LET f == findSerializerFor(obj)
        w == SerWrite(f.ser, obj, isBigEndian)
    IN  IF f.err # "none" THEN [err |-> f.err, ser |-> f.ser, data |-> <<>>]
        ELSE IF Absent(f.ser)
        THEN [err |-> PropertyError(f.ser.kind), ser |-> f.ser, data |-> <<>>]
        ELSE IF w.err # "none" THEN [err |-> w.err, ser |-> f.ser, data |-> <<>>]
        ELSE [err |-> "none", ser |-> f.ser,
              data |-> writeInt(calculatePartitionHash(obj), isBigEndian)
                          \o writeInt(f.ser.id, isBigEndian) \o w.bytes]

\* The error toData throws, the serializer it resolved and the envelope.
toData(obj) ==
    LET f == findSerializerFor(obj)
        w == SerWrite(f.ser, obj, isBigEndian)
    IN  IF f.err # "none" THEN [err |-> f.err, ser |-> f.ser, data |-> <<>>]
        ELSE IF Absent(f.ser)
        THEN [err |-> PropertyError(f.ser.kind), ser |-> f.ser, data |-> <<>>]
        ELSE IF w.err # "none" THEN [err |-> w.err, ser |-> f.ser, data |-> <<>>]
        ELSE [err |-> "none", ser |-> f.ser,
              data |-> writeIntBE(calculatePartitionHash(obj))
                          \o writeIntBE(f.ser.id) \o w.bytes]

ToData(obj) ==
    LET r == toData(obj)
    IN  /\ op' = "toData"
        /\ arg' = obj
        /\ err' = r.err
        /\ serializer' = r.ser
        /\ ret' = r.data
        /\ held' = Held(IF r.err = "none" THEN "data" ELSE "failed",
                         r.data, 0, obj)
        /\ regBefore' = registry
        /\ namesBefore' = serializerNameToId
        /\ UNCHANGED <<isBigEndian, registry, serializerNameToId>>

\* toObject that reads the payload from the start of the buffer.
toObject_fromStart(d) ==
    LET ser == findSerializerById(getType(d))
    IN  IF Absent(ser)
        THEN [err |-> PropertyError(ser.kind), ser |-> ser, val |-> Undefined]
        ELSE [err |-> "none", ser |-> ser,
              val |-> SerRead(ser, d, 1, isBigEndian)]

\* The error toObject throws, the serializer it resolved and the value.
toObject(d) ==
    LET ser == findSerializerById(getType(d))
    IN  IF Absent(ser)
        THEN [err |-> PropertyError(ser.kind), ser |-> ser, val |-> Undefined]
        ELSE [err |-> "none", ser |-> ser,
              val |-> SerRead(ser, d, DATA_OFFSET + 1, isBigEndian)]

\* Type tags of envelopes and streams that did not come from this service.
ForeignTags == {7, 99}

\* The envelope d with its type tag replaced.
Retagged(d, tag) == SubSeq(d, 1, 4) \o writeIntBE(tag) \o SubSeq(d, 9, Len(d))

ToObject(d) ==
    LET r == toObject(d)
    IN  /\ op' = "toObject"
        /\ arg' = d
        /\ err' = r.err
        /\ serializer' = r.ser
        /\ ret' = r.val
        /\ regBefore' = registry
        /\ namesBefore' = serializerNameToId
        /\ UNCHANGED <<isBigEndian, registry, serializerNameToId, held>>

\* The error writeObject throws, the serializer it resolved and the stream
\* afterwards.
writeObject(stream, obj) ==
    LET f == findSerializerFor(obj)
        w == SerWrite(f.ser, obj, isBigEndian)
    IN  IF f.err # "none" THEN [err |-> f.err, ser |-> f.ser, out |-> stream]
        ELSE IF Absent(f.ser)
        THEN [err |-> PropertyError(f.ser.kind), ser |-> f.ser, out |-> stream]
        ELSE [err |-> w.err, ser |-> f.ser,
              out |-> stream \o writeInt(f.ser.id, isBigEndian) \o w.bytes]

\* What the caller's stream holds before writeObject.
Streams == {<<>>, <<1>>}

WriteObject(stream, obj) ==
    LET r == writeObject(stream, obj)
    IN  /\ op' = "writeObject"
        /\ arg' = obj
        /\ err' = r.err
        /\ serializer' = r.ser
        /\ ret' = <<>>
        /\ held' = Held(IF r.err = "none" THEN "stream" ELSE "failed",
                         r.out, Len(stream), obj)
        /\ regBefore' = registry
        /\ namesBefore' = serializerNameToId
        /\ UNCHANGED <<isBigEndian, registry, serializerNameToId>>

\* readObject on the stream inp positioned at pos (0-based).
readObject(inp, pos) ==
    LET serializerId == IntAt(inp, pos + 1, isBigEndian)
        ser == findSerializerById(serializerId)
    IN  IF Absent(ser)
        THEN [err |-> PropertyError(ser.kind), ser |-> ser, val |-> Undefined]
        ELSE [err |-> "none", ser |-> ser,
              val |-> SerRead(ser, inp, pos + 5, isBigEndian)]

ReadObject(inp) ==
    LET r == readObject(inp, held.start)
    IN  /\ op' = "readObject"
        /\ arg' = inp
        /\ err' = r.err
        /\ serializer' = r.ser
        /\ ret' = r.val
        /\ regBefore' = registry
        /\ namesBefore' = serializerNameToId
        /\ UNCHANGED <<isBigEndian, registry, serializerNameToId, held>>

------------------------------------------------------------------------------
\* ClientMessage and BitsUtil

HEADER_SIZE == 22

\* A message is the length of its buffer, the bytes appended after the
\* header, and the header fields the codec sets.
newClientMessage(payloadSize) ==
    [size |-> HEADER_SIZE + payloadSize, body |-> <<>>, frameLength |-> 0,
     messageType |-> "", retryable |-> FALSE, overflow |-> FALSE]

\* Appending past the end of the buffer is out of range.
Append4(msg, bytes) ==
    [msg EXCEPT !.body = @ \o bytes,
                !.overflow = @ \/ (HEADER_SIZE + Len(msg.body) + Len(bytes)
                                     > msg.size)]

appendString(msg, str) == Append4(msg, writeInt(Len(Utf8(str)), FALSE) \o Utf8(str))
appendData(msg, d)     == Append4(msg, writeInt(Len(d), FALSE) \o d)
updateFrameLength(msg) ==
    [msg EXCEPT !.frameLength = HEADER_SIZE + Len(msg.body)]

calculateSizeString(str) == 4 + Len(Utf8(str))
calculateSizeData(d)     == 4 + Len(d)

------------------------------------------------------------------------------
\* MultiMapIsLockedCodec

REQUEST_TYPE == "MULTIMAP_ISLOCKED"
RETRYABLE == TRUE

\* calculateSize that leaves the key out.
calculateSize_withoutKey(name, key) ==
    0 + calculateSizeString(name)

calculateSize(name, key) ==
    0 + calculateSizeString(name) + calculateSizeData(key)

encodeRequest(name, key) ==
    LET m0 == newClientMessage(calculateSize(name, key))
        m1 == [m0 EXCEPT !.messageType = REQUEST_TYPE]
        m2 == [m1 EXCEPT !.retryable = RETRYABLE]
        m3 == appendString(m2, name)
        m4 == appendData(m3, key)
    IN  updateFrameLength(m4)

EncodeRequest(name, key) ==
    LET m == encodeRequest(name, key)
    IN  /\ op' = "encodeRequest"
        /\ arg' = <<name, key>>
        /\ err' = IF m.overflow THEN "RangeError: out of range" ELSE "none"
        /\ ret' = m
        /\ serializer' = NullSer
        /\ regBefore' = registry
        /\ namesBefore' = serializerNameToId
        /\ UNCHANGED <<isBigEndian, registry, serializerNameToId, held>>

------------------------------------------------------------------------------
\* The service after construction, used by one caller. A behaviour follows
\* one value through the service: toData, toObject, writeObject and
\* readObject leave the service as it was, and registerSerializer, the only
\* call that changes it, may run at any point.

Init ==
    /\ isBigEndian \in BOOLEAN
    /\ registry = Constructed.reg
    /\ serializerNameToId = Constructed.names
    /\ op = "new"
    /\ arg = <<>>
    /\ serializer = NullSer
    /\ err = Constructed.err
    /\ ret = <<>>
    /\ held = NoHeld
    /\ regBefore = NoTable
    /\ namesBefore = NoTable

Next ==
    \/ \E name \in UserNames, ser \in UserSerializers :
          RegisterSerializer(name, ser)
    \/ /\ held.kind = "none"
       /\ \E obj \in Values : ToData(obj)
    \/ /\ held.kind = "data"
       /\ \E d \in {held.bytes}
                    \cup {Retagged(held.bytes, t) : t \in ForeignTags} :
             ToObject(d)
    \/ /\ held.kind = "none"
       /\ \E stream \in Streams, obj \in Values : WriteObject(stream, obj)
    \/ /\ held.kind = "stream"
       /\ \E inp \in {held.bytes}
                      \cup {SubSeq(held.bytes, 1, held.start)
                              \o writeInt(t, isBigEndian) : t \in ForeignTags} :
             ReadObject(inp)
    \/ /\ held.kind = "data"
       /\ \E name \in Strings : EncodeRequest(name, held.bytes)

Spec == Init /\ [][Next]_vars

------------------------------------------------------------------------------
\* Properties of the service and of the codec

\* The tables were those of a freshly constructed service when the last
\* call began.
Fresh == regBefore = Constructed.reg /\ namesBefore = Constructed.names

LastName == arg[1]
LastSer  == arg[2]

\* C1: on a freshly constructed service toData succeeds on every non-null
\* supported value, and toObject of the envelope succeeds and returns a
\* value equal to the one serialized.
C1_RoundTrip ==
    /\ (op = "toData" /\ Fresh /\ Supported(arg)) => err = "none"
    /\ (op = "toObject" /\ Fresh /\ held.kind = "data" /\ arg = held.bytes
          /\ Supported(held.object))
          => (err = "none" /\ ret = held.object)

C1_Witness ==
    /\ op = "toObject" /\ Fresh /\ ~isBigEndian /\ arg = held.bytes
    /\ held.object = Arr(<<Str(<<>>), Str(<<99, 233>>)>>, {})
    /\ ret = held.object

\* C2: on a freshly constructed service toData(null) throws nothing and
\* returns an envelope tagged with the null serializer, and toObject of that
\* envelope returns null.
C2_NullSerializable ==
    /\ (op = "toData" /\ Fresh /\ arg = Null)
          => (err = "none" /\ serializer = Default("NullSerializer")
                /\ getType(ret) = Default("NullSerializer").id)
    /\ (op = "toObject" /\ Fresh /\ held.kind = "data" /\ arg = held.bytes
          /\ held.object = Null) => (err = "none" /\ ret = Null)

\* C3: registerSerializer fails with the duplicate-name error when the name
\* is in the name table whatever tag it maps to, fails with the
\* duplicate-tag error when the name is new and the tag is bound, and leaves
\* both tables as they were when it fails.
C3_DuplicatesRejected ==
    op = "registerSerializer" =>
        /\ Bound(namesBefore, LastName) => err = DuplicateName
        /\ (~Bound(namesBefore, LastName) /\ Bound(regBefore, LastSer.id))
              => err = DuplicateTag
        /\ (Bound(namesBefore, LastName) \/ Bound(regBefore, LastSer.id))
              => (serializerNameToId = namesBefore /\ registry = regBefore)

\* C4: toData and writeObject resolve the serializer registered under
\* 'identified' for every value that has all four capabilities, arrays
\* included, and resolve a serializer by shape only for values that lack one.
C4_IdentifiedFirst ==
    op \in {"toData", "writeObject"} =>
        /\ IdentifiedCaps \subseteq arg.caps
              => (err = "none"
                    /\ serializer = registry[serializerNameToId["identified"]])
        /\ (err = "none"
              /\ serializer # registry[serializerNameToId["identified"]])
              => ~(IdentifiedCaps \subseteq arg.caps)

C4_Witness ==
    /\ op = "toData" /\ err = "none"
    /\ arg = Arr(<<Bool(TRUE)>>, IdentifiedCaps)
    /\ serializer.kind = "IdentifiedDataSerializableSerializer"

\* The error the specification names for a shape without a serializer.
NoSerializerFound(shape) == "NoSerializerFound: " \o shape
ShapeNames == {"object", "array", "null", "number", "string", "boolean"}

\* C5: when no registered serializer matches the shape of a value, toData
\* and writeObject fail with NoSerializerFound naming the shape, return no
\* envelope and leave the caller's stream as it was.
C5_NoSerializerFound ==
    (op \in {"toData", "writeObject"} /\ arg.t \notin {"null", "undefined"}
       /\ Absent(serializer)) =>
        /\ err \in { NoSerializerFound(n) : n \in ShapeNames }
                     \cup { NoSerializerFound(n \o "Array") : n \in ShapeNames }
        /\ op = "toData" => ret = <<>>
        /\ op = "writeObject" => Len(held.bytes) = held.start

\* The error the specification names for a tag without a serializer.
UnknownType == "UnknownType"

\* The type tag the last toObject or readObject read.
TagRead ==
    IF op = "toObject" THEN getType(arg)
    ELSE IntAt(arg, held.start + 1, isBigEndian)

\* C6: toObject and readObject fail with UnknownType when the tag they read
\* is not bound in the tag table, and otherwise resolve exactly the
\* serializer bound to it.
C6_UnknownType ==
    op \in {"toObject", "readObject"} =>
        /\ ~Bound(registry, TagRead) => err = UnknownType
        /\ Bound(registry, TagRead)
              => (err = "none" /\ serializer = registry[TagRead])

\* C7 as stated: the message encodeRequest returns is calculateSize(name,
\* key) bytes long, header included, and calculateSize is the header size
\* plus a 4-byte prefix and the content length of name and of key.
C7_LengthIsCalculateSize ==
    op = "encodeRequest" =>
        /\ ret.size = calculateSize(arg[1], arg[2])
        /\ calculateSize(arg[1], arg[2])
              = HEADER_SIZE + 4 + Len(Utf8(arg[1])) + 4 + Len(arg[2])

\* C7 amended: the message encodeRequest returns is the header size plus
\* calculateSize(name, key) bytes long, its frame length says so, and
\* calculateSize is the payload size alone: a 4-byte prefix and the content
\* length of name and of key.
C7_LengthIsHeaderPlusCalculateSize ==
    op = "encodeRequest" =>
        /\ err = "none"
        /\ ret.size = HEADER_SIZE + calculateSize(arg[1], arg[2])
        /\ ret.frameLength = ret.size
        /\ calculateSize(arg[1], arg[2])
              = 4 + Len(Utf8(arg[1])) + 4 + Len(arg[2])

C7_Witness ==
    /\ op = "encodeRequest" /\ arg[1] = <<99, 233>>
    /\ held.object = Str(<<99, 233>>)
    /\ ret.size = 48

\* Names the specification wants registered at construction.
BaseNames == {"string", "number", "boolean", "null", "short", "integer",
              "long", "float"}

\* C8: right after construction the registry resolves a serializer by name
\* for each base name, for its array variant and for 'identified', and every
\* name in the name table maps to a bound tag.
C8_DefaultsRegistered ==
    op = "new" =>
        /\ \A n \in BaseNames :
              /\ ~Absent(findSerializerByName(n, FALSE))
              /\ ~Absent(findSerializerByName(n, TRUE))
        /\ ~Absent(findSerializerByName("identified", FALSE))
        /\ \A n \in DOMAIN serializerNameToId :
              Bound(registry, serializerNameToId[n])

\* C9 as stated: the partition hash and the type tag of every envelope are
\* written in the configured byte order.
C9_HeaderInConfiguredOrder ==
    (op = "toData" /\ err = "none") =>
        /\ SubSeq(ret, 1, 4)
              = IntBytes(calculatePartitionHash(arg), isBigEndian)
        /\ SubSeq(ret, 5, 8) = IntBytes(serializer.id, isBigEndian)

\* C9 amended: the partition hash and the type tag of every envelope are
\* written big-endian whatever the configured byte order is, and the
\* integers of the payload (the count of an array, the length of a string)
\* in the configured order.
C9_HeaderBigEndian ==
    (op = "toData" /\ err = "none") =>
        /\ SubSeq(ret, 1, 4) = IntBytes(calculatePartitionHash(arg), TRUE)
        /\ SubSeq(ret, 5, 8) = IntBytes(serializer.id, TRUE)
        /\ (arg.t = "array" /\ ~isIdentifiedDataSerializable(arg))
              => SubSeq(ret, 9, 12) = IntBytes(Len(arg.e), isBigEndian)
        /\ arg.t = "string"
              => SubSeq(ret, 9, 12) = IntBytes(Len(Utf8(arg.s)), isBigEndian)

C9_Witness ==
    /\ op = "toData" /\ err = "none" /\ ~isBigEndian
    /\ arg = Obj(IdentifiedCaps \cup {"getPartitionHash"})
    /\ SubSeq(ret, 1, 8) = <<0, 0, 1, 2, 255, 255, 255, 254>>

\* Arrays that are not identified custom types.
PlainArrays == { a \in Arrays : ~isIdentifiedDataSerializable(a) }

\* C10: for an array that is not an identified custom type the serializer
\* resolved is the one named 'numberArray' when the array is empty and
\* otherwise the one every array with the same first-element shape gets,
\* whatever its later elements are.
C10_FirstElementDecides ==
    (op \in {"toData", "writeObject"} /\ arg.t = "array"
       /\ ~isIdentifiedDataSerializable(arg)) =>
        /\ Len(arg.e) = 0
              => serializer = registry[serializerNameToId["numberArray"]]
        /\ Len(arg.e) > 0 =>
              /\ serializer = IF Bound(serializerNameToId, arg.e[1].t \o "Array")
                              THEN registry[serializerNameToId[arg.e[1].t \o "Array"]]
                              ELSE NullSer
              /\ \A w \in PlainArrays :
                    (Len(w.e) > 0 /\ w.e[1].t = arg.e[1].t)
                        => findSerializerFor(w).ser = serializer

C10_Witness ==
    /\ op = "toData"
    /\ arg = Arr(<<Bool(TRUE), Null>>, {})
    /\ serializer.kind = "BooleanArraySerializer"

====
